---- MODULE Spec2Model ----
(***************************************************************************)
(* fix-imports.py: strip the ".js" extension from the module paths of      *)
(* TypeScript import statements.                                           *)
(*                                                                         *)
(* A text is a sequence of one-character strings.  The two regular         *)
(* expressions of fix_imports_in_file are modelled character by character, *)
(* with the greedy/lazy quantifiers and the backtracking order of re.      *)
(*                                                                         *)
(*   Spec         main(): the root check, discovery, the loop over the     *)
(*                files with read and write failures, the summary.         *)
(*   SpecRewrite  fix_imports_in_file on one file, one statement of the    *)
(*                body at a time, run twice over the same file.            *)
(***************************************************************************)
EXTENDS Integers, Sequences, FiniteSets

VARIABLES
    \* ---- main() ----
    pc,               \* position in main: "start", "loop", "done"
    root_exists,      \* project_root.exists()
    disk,             \* disk[f]: the text of discovered file f
    disk0,            \* the disk when main started (history)
    readable,         \* readable[f]: open(f, 'r') and f.read() succeed
    found,            \* len(ts_files) as printed, -1 before discovery
    idx,              \* number of loop iterations done
    fixed_count,
    out,              \* the printed lines
    opened_w,         \* files opened with mode 'w' (history)
    raised,           \* files whose processing raised (history)
    \* ---- fix_imports_in_file, statement by statement ----
    inp,              \* the parts the file's text was built from (history)
    file,             \* the text of the file on disk
    fpc,              \* position: "read", "sub", "cmp", "ret"
    content,
    original_content,
    k,                \* number of patterns applied by the for loop
    after1,           \* content after the first pattern (history)
    run,              \* 1: first run of the tool, 2: second run
    out1,             \* the file after the first run (history)
    writes,           \* number of times the file was opened for writing
    result            \* return value of the last call

mainVars == <<pc, root_exists, disk, disk0, readable, found, idx, fixed_count,
              out, opened_w, raised>>
fileVars == <<inp, file, fpc, content, original_content, k, after1, run, out1,
              writes, result>>
vars == <<mainVars, fileVars>>

(***************************************************************************)
(* Bounds.                                                                 *)
(***************************************************************************)
MaxWs == 2        \* longest run of whitespace in a generated statement
MaxSuffix == 2    \* most repetitions of ".js" at the end of a path
MaxFiles == 2     \* most files discovery returns

(***************************************************************************)
(* Characters and literals.                                                *)
(***************************************************************************)
SQ == "'"
DQ == "\""
Quotes == {SQ, DQ}
WsChars == {" ", "\t"}

IsQuote(c) == c \in Quotes
\* \s of re, restricted to the whitespace the generated texts contain
IsSpace(c) == c \in {" ", "\t", "\n"}

FROM == <<"f", "r", "o", "m">>
IMPORT == <<"i", "m", "p", "o", "r", "t">>
EXPORT == <<"e", "x", "p", "o", "r", "t">>
DOTJS == <<".", "j", "s">>

\* literal `lit` occurs in s at position i
HasAt(s, i, lit) ==
    /\ i >= 1
    /\ i + Len(lit) - 1 <= Len(s)
    /\ \A n \in 1..Len(lit) : s[i + n - 1] = lit[n]

NoMatch == [ok |-> FALSE, end |-> 0, g1 |-> <<>>, g2 |-> <<>>]

(***************************************************************************)
(* The pieces of the two patterns (lines 21 and 23).                       *)
(***************************************************************************)
\* \s+ is greedy: the position after the run of whitespace that starts at i
\* (i itself when s[i] is no whitespace)
RECURSIVE SkipSpace(_, _)
SkipSpace(s, i) ==
    IF i <= Len(s) /\ IsSpace(s[i]) THEN SkipSpace(s, i + 1) ELSE i

\* .js['"] with the dot left unescaped: any character, then js and a quote
AnyCharJsQuote(s, j) ==
    /\ j + 3 <= Len(s)
    /\ s[j + 1] = "j"
    /\ s[j + 2] = "s"
    /\ IsQuote(s[j + 3])

\* \.js['"] at position j
DotJsQuote(s, j) ==
    /\ HasAt(s, j, DOTJS)
    /\ j + 3 <= Len(s)
    /\ IsQuote(s[j + 3])

\* ([^'"]*?)\.js['"] with the group starting at some position <= j and the
\* lazy group tried up to j - 1: the group grows one non-quote character at a
\* time until \.js['"] follows.  The position of \.js, or 0 for no match.
RECURSIVE LazyPath(_, _)
LazyPath(s, j) ==
    IF DotJsQuote(s, j) THEN j
    ELSE IF j <= Len(s) /\ ~IsQuote(s[j]) THEN LazyPath(s, j + 1)
    ELSE 0

\* from\s+['"]([^'"]*?)\.js['"] at position i: the whole first pattern and
\* the tail of the second.  g2 is the module path without its last ".js".
FromClause(s, i) ==
    IF ~HasAt(s, i, FROM) THEN NoMatch
    ELSE LET q == SkipSpace(s, i + 4)
         IN  IF q = i + 4 \/ q > Len(s) \/ ~IsQuote(s[q]) THEN NoMatch
             ELSE LET j == LazyPath(s, q + 1)
                  IN  IF j = 0 THEN NoMatch
                      ELSE [ok |-> TRUE, end |-> j + 4, g1 |-> <<>>,
                            g2 |-> SubSeq(s, q + 1, j - 1)]

\* ([^'"]*?)\s+from... with the clause starting at b and tried up to e - 1:
\* the lazy clause grows one non-quote character at a time until
\* \s+from\s+['"]...\.js['"] follows.
RECURSIVE LazyClause(_, _, _)
LazyClause(s, b, e) ==
    LET f == SkipSpace(s, e)
        m == FromClause(s, f)
    IN  IF f > e /\ m.ok
        THEN [ok |-> TRUE, end |-> m.end, g1 |-> SubSeq(s, b, e - 1), g2 |-> m.g2]
        ELSE IF e <= Len(s) /\ ~IsQuote(s[e]) THEN LazyClause(s, b, e + 1)
        ELSE NoMatch

\* import\s+ followed by the rest, with the greedy \s+ ending before b
\* (a + 1 <= b): when the rest fails, \s+ gives back one character.
RECURSIVE BacktrackSpace(_, _, _)
BacktrackSpace(s, a, b) ==
    IF b <= a THEN NoMatch
    ELSE LET m == LazyClause(s, b, b)
         IN  IF m.ok THEN m ELSE BacktrackSpace(s, a, b - 1)

\* import\s+([^'"]*?)\s+from\s+['"]([^'"]*?)\.js['"] at position i
ImportClause(s, i) ==
    IF ~HasAt(s, i, IMPORT) THEN NoMatch
    ELSE BacktrackSpace(s, i + 6, SkipSpace(s, i + 6))

\* pattern r of the list at position i
MatchAt(r, s, i) == IF r = 1 THEN FromClause(s, i) ELSE ImportClause(s, i)

\* templates written with double quotes: r'from "\1"'
ReplacementDoubleQuoted(r, m) ==
    IF r = 1 THEN FROM \o <<" ", DQ>> \o m.g2 \o <<DQ>>
    ELSE IMPORT \o <<" ">> \o m.g1 \o <<" ">> \o FROM \o <<" ", DQ>> \o m.g2 \o <<DQ>>

\* templates without the space after `from`: r"from'\1'"
ReplacementNoSpace(r, m) ==
    IF r = 1 THEN FROM \o <<SQ>> \o m.g2 \o <<SQ>>
    ELSE IMPORT \o <<" ">> \o m.g1 \o <<" ">> \o FROM \o <<SQ>> \o m.g2 \o <<SQ>>

\* the replacement template of pattern r, expanded for match m:
\* r"from '\1'" and r"import \1 from '\2'"
Replacement(r, m) ==
    IF r = 1 THEN FROM \o <<" ", SQ>> \o m.g2 \o <<SQ>>
    ELSE IMPORT \o <<" ">> \o m.g1 \o <<" ">> \o FROM \o <<" ", SQ>> \o m.g2 \o <<SQ>>

\* re.sub(..., count=1): only the leftmost match is replaced
RECURSIVE SubFirstOnly(_, _, _)
SubFirstOnly(r, s, i) ==
    IF i > Len(s) THEN <<>>
    ELSE LET m == MatchAt(r, s, i)
         IN  IF m.ok THEN Replacement(r, m) \o SubSeq(s, m.end, Len(s))
             ELSE <<s[i]>> \o SubFirstOnly(r, s, i + 1)

\* re.sub: the leftmost match, then the next one from where it ended
RECURSIVE SubFrom(_, _, _)
SubFrom(r, s, i) ==
    IF i > Len(s) THEN <<>>
    ELSE LET m == MatchAt(r, s, i)
         IN  IF m.ok THEN Replacement(r, m) \o SubFrom(r, s, m.end)
             ELSE <<s[i]>> \o SubFrom(r, s, i + 1)

Sub(r, s) == SubFrom(r, s, 1)

\* the list without its second pattern
OnlyFirstPattern == <<1>>

\* the patterns list, in order
Patterns == <<1, 2>>

\* for pattern, replacement in patterns: content = re.sub(...)
RECURSIVE ApplyFrom(_, _)
ApplyFrom(n, s) ==
    IF n > Len(Patterns) THEN s ELSE ApplyFrom(n + 1, Sub(Patterns[n], s))

Rewrite(s) == ApplyFrom(1, s)

\* the file is written whether or not the content changed
AlwaysChanged(new, old) == TRUE

\* if content != original_content
Changed(new, old) == new # old

(***************************************************************************)
(* The texts the files hold: one statement built from parts, and a trail.  *)
(*   [head] from <fws> <q1> <stem> (.js)^nsuf <ext> <q2> <trail>           *)
(***************************************************************************)
RECURSIVE Repeat(_, _)
Repeat(t, n) == IF n = 0 THEN <<>> ELSE t \o Repeat(t, n - 1)

\* runs of one whitespace character, lo to MaxWs long
WsRuns(lo) == {Repeat(<<c>>, n) : c \in WsChars, n \in lo..MaxWs}

Keywords == {"none", "import", "export"}

\* the text before `from`
Lead(kw, lws) ==
    CASE kw = "import" -> IMPORT \o lws \o <<"x">> \o lws
      [] kw = "export" -> EXPORT \o lws \o <<"*">> \o lws
      [] OTHER -> <<>>

PlainStems == {<<>>, <<".", "/", "a">>}
\* a path that holds an import statement up to its `from `
NestedStem == IMPORT \o <<" ", "x", " ">> \o FROM \o <<" ">>
Stems == PlainStems \cup {NestedStem}

\* what follows the last ".js" of the path: nothing, "on" (.json), ".map", or
\* "js" (a path ending in js without the dot when nsuf = 0)
Exts == {<<>>, <<"o", "n">>, <<".", "m", "a", "p">>, <<"j", "s">>}

\* a second statement on the next line
SecondStmt == <<"\n">> \o FROM \o <<" ", DQ, "b">> \o DOTJS \o <<DQ>>
\* what follows the closing quote
Trails == {<<>>, DOTJS \o <<SQ>>, SecondStmt}

Inputs ==
    [kw : Keywords, lws : WsRuns(1), fws : WsRuns(0), q1 : Quotes,
     stem : Stems, nsuf : 0..MaxSuffix, ext : Exts, q2 : Quotes, trail : Trails]

\* the module path between the quotes
PathOf(i) == i.stem \o Repeat(DOTJS, i.nsuf) \o i.ext

Build(i) ==
    Lead(i.kw, i.lws) \o FROM \o i.fws \o <<i.q1>> \o PathOf(i) \o <<i.q2>> \o i.trail

\* one representative per text: lws matters only after a keyword
Canonical(i) == i.kw = "none" => i.lws = <<" ">>

(***************************************************************************)
(* fix_imports_in_file on one file, statement by statement (SpecRewrite).  *)
(***************************************************************************)
IdleMain ==
    /\ pc = "idle" /\ root_exists = TRUE /\ disk = <<>> /\ disk0 = <<>>
    /\ readable = <<>> /\ found = -1 /\ idx = 0 /\ fixed_count = 0
    /\ out = <<>> /\ opened_w = {} /\ raised = {}

InitRewrite ==
    /\ IdleMain
    /\ inp \in {i \in Inputs : Canonical(i)}
    /\ file = Build(inp)
    /\ fpc = "read"
    /\ content = <<>>
    /\ original_content = <<>>
    /\ k = 0
    /\ after1 = <<>>
    /\ run = 1
    /\ out1 = <<>>
    /\ writes = 0
    /\ result = FALSE

\* lines 13-16: content = f.read(); original_content = content
ReadFile ==
    /\ fpc = "read"
    /\ content' = file
    /\ original_content' = file
    /\ k' = 0
    /\ fpc' = "sub"
    /\ UNCHANGED <<mainVars, inp, file, after1, run, out1, writes, result>>

\* lines 26-27: one iteration of the for loop
ApplyPattern ==
    /\ fpc = "sub"
    /\ k < Len(Patterns)
    /\ content' = Sub(Patterns[k + 1], content)
    /\ k' = k + 1
    /\ after1' = IF k = 0 THEN content' ELSE after1
    /\ fpc' = IF k' = Len(Patterns) THEN "cmp" ELSE "sub"
    /\ UNCHANGED <<mainVars, inp, file, original_content, run, out1, writes, result>>

\* lines 30-34: the content changed, the file is written, True is returned
WriteBack ==
    /\ fpc = "cmp"
    /\ Changed(content, original_content)
    /\ file' = content
    /\ writes' = writes + 1
    /\ result' = TRUE
    /\ fpc' = "ret"
    /\ out1' = IF run = 1 THEN file' ELSE out1
    /\ UNCHANGED <<mainVars, inp, content, original_content, k, after1, run>>

\* line 36: the content did not change, False is returned
ReturnUnchanged ==
    /\ fpc = "cmp"
    /\ ~Changed(content, original_content)
    /\ result' = FALSE
    /\ fpc' = "ret"
    /\ out1' = IF run = 1 THEN file ELSE out1
    /\ UNCHANGED <<mainVars, inp, file, content, original_content, k, after1, run, writes>>

\* the tool is run a second time over the file as the first run left it
RunAgain ==
    /\ fpc = "ret"
    /\ run = 1
    /\ run' = 2
    /\ fpc' = "read"
    /\ writes' = 0
    /\ UNCHANGED <<mainVars, inp, file, content, original_content, k, after1, out1, result>>

NextRewrite ==
    \/ ReadFile
    \/ ApplyPattern
    \/ WriteBack
    \/ ReturnUnchanged
    \/ RunAgain

SpecRewrite == InitRewrite /\ [][NextRewrite]_vars

(***************************************************************************)
(* main() over a tree of files, with read and write failures (Spec).       *)
(***************************************************************************)
\* from './a.js'       import x from "./a.js"       from './a'
TextFrom == FROM \o <<" ", SQ, ".", "/", "a">> \o DOTJS \o <<SQ>>
TextImport == IMPORT \o <<" ", "x", " ">> \o FROM \o <<" ", DQ, ".", "/", "a">> \o DOTJS \o <<DQ>>
TextPlain == FROM \o <<" ", SQ, ".", "/", "a", SQ>>
Texts == {TextFrom, TextImport, TextPlain}

IdleFile ==
    /\ inp = [kw |-> "none"] /\ file = <<>> /\ fpc = "idle" /\ content = <<>>
    /\ original_content = <<>> /\ k = 0 /\ after1 = <<>> /\ run = 0
    /\ out1 = <<>> /\ writes = 0 /\ result = FALSE

Init ==
    /\ IdleFile
    /\ pc = "start"
    /\ root_exists \in BOOLEAN
    /\ \E n \in 0..MaxFiles :
          /\ disk \in [1..n -> Texts]
          /\ readable \in [1..n -> BOOLEAN]
    /\ root_exists = FALSE => disk = <<>>
    /\ disk0 = disk
    /\ found = -1
    /\ idx = 0
    /\ fixed_count = 0
    /\ out = <<>>
    /\ opened_w = {}
    /\ raised = {}

\* the existence check left out
RootCheckSkipped == FALSE

\* line 46: if not project_root.exists()
RootMissing == ~root_exists

\* lines 46-48: the root is missing, main reports it and returns
RootNotFound ==
    /\ pc = "start"
    /\ RootMissing
    /\ out' = Append(out, <<"not found">>)
    /\ pc' = "done"
    /\ UNCHANGED <<root_exists, disk, disk0, readable, found, idx, fixed_count,
                   opened_w, raised, fileVars>>

\* lines 51-57: ts_files holds every file under the root, each once
Discover ==
    /\ pc = "start"
    /\ ~RootMissing
    /\ found' = Len(disk)
    /\ out' = Append(out, <<"found", Len(disk)>>)
    /\ fixed_count' = 0
    /\ idx' = 0
    /\ pc' = "loop"
    /\ UNCHANGED <<root_exists, disk, disk0, readable, opened_w, raised, fileVars>>

\* what open(file_path, 'w') followed by f.write(content) may leave behind
\* when it raises after the file was truncated: a proper prefix of content
PartialWrites(new) == {SubSeq(new, 1, n) : n \in 0..(Len(new) - 1)}

\* the handler returning True
ExceptReturnTrue == TRUE

\* lines 38-40: the value returned when the body raised
ExceptReturn == FALSE

\* fix_imports_in_file(f): every way one call can end.
\*   ret: the return value, text: the file afterwards, opened: open(f, 'w')
\*   was called, exc: an exception was caught, line: what was printed
FixImportsInFile(f) ==
    IF ~readable[f]
    THEN {[ret |-> ExceptReturn, text |-> disk[f], opened |-> FALSE, exc |-> TRUE,
           line |-> <<"error", f>>]}
    ELSE LET original == disk[f]
             new == Rewrite(original)
         IN  IF Changed(new, original)
             THEN {[ret |-> TRUE, text |-> new, opened |-> TRUE, exc |-> FALSE,
                    line |-> <<"fixed", f>>]}
                  \cup {[ret |-> ExceptReturn, text |-> t, opened |-> TRUE, exc |-> TRUE,
                         line |-> <<"error", f>>] : t \in {original} \cup PartialWrites(new)}
             ELSE {[ret |-> FALSE, text |-> original, opened |-> FALSE, exc |-> FALSE,
                    line |-> <<>>]}

\* lines 58-60: one iteration of the loop over ts_files
ProcessFile ==
    /\ pc = "loop"
    /\ idx < found
    /\ \E r \in FixImportsInFile(idx + 1) :
          /\ disk' = [disk EXCEPT ![idx + 1] = r.text]
          /\ opened_w' = IF r.opened THEN opened_w \cup {idx + 1} ELSE opened_w
          /\ raised' = IF r.exc THEN raised \cup {idx + 1} ELSE raised
          /\ out' = IF r.line = <<>> THEN out ELSE Append(out, r.line)
          /\ fixed_count' = IF r.ret THEN fixed_count + 1 ELSE fixed_count
    /\ idx' = idx + 1
    /\ UNCHANGED <<pc, root_exists, disk0, readable, found, fileVars>>

\* line 62: the summary
Summary ==
    /\ pc = "loop"
    /\ idx = found
    /\ out' = Append(out, <<"summary", fixed_count>>)
    /\ pc' = "done"
    /\ UNCHANGED <<root_exists, disk, disk0, readable, found, idx, fixed_count,
                   opened_w, raised, fileVars>>

Next ==
    \/ RootNotFound
    \/ Discover
    \/ ProcessFile
    \/ Summary

Spec == Init /\ [][Next]_vars

(***************************************************************************)
(* Properties of main() (Spec).                                            *)
(***************************************************************************)
Lines == {out[n] : n \in 1..Len(out)}
Files == 1..Len(disk0)
Rewritable(f) == Rewrite(disk0[f]) # disk0[f]

\* C1: a file that was read is opened for writing if and only if the rules
\* changed its content; a file the rules leave unchanged is never opened for
\* writing and keeps its text.
C1_WriteIffChanged ==
    \A f \in Files :
        /\ f > idx => f \notin opened_w
        /\ (f <= idx /\ readable[f]) =>
              /\ f \in opened_w <=> Rewritable(f)
              /\ ~Rewritable(f) => disk[f] = disk0[f]

C1_Witness ==
    /\ pc = "done"
    /\ \E f, g \in Files :
          /\ readable[f] /\ ~Rewritable(f) /\ f \notin opened_w
          /\ readable[g] /\ Rewritable(g) /\ g \in opened_w

\* the guard of some action of main holds
CanStep ==
    \/ pc = "start"
    \/ pc = "loop" /\ idx = found
    \/ pc = "loop" /\ idx < found /\ FixImportsInFile(idx + 1) # {}

\* C6: a read or write failure of one file is contained to it: the call
\* returns False and adds nothing to fixed_count, every other file ends up as
\* it would without the failure, and main goes on to the summary.
C6_FailureContained ==
    /\ pc # "done" => CanStep
    /\ \A f \in raised : <<"fixed", f>> \notin Lines /\ <<"error", f>> \in Lines
    /\ fixed_count = Cardinality({f \in 1..idx : f \notin raised /\ Rewritable(f)})
    /\ \A f \in 1..idx : f \notin raised => disk[f] = Rewrite(disk0[f])
    /\ (pc = "done" /\ root_exists) =>
          /\ idx = Len(disk0)
          /\ out[Len(out)] = <<"summary", fixed_count>>

C6_Witness ==
    /\ pc = "done"
    /\ \E g, h \in Files :
          /\ g < h
          /\ g \in raised /\ g \in opened_w /\ disk[g] # disk0[g]
          /\ h \notin raised /\ disk[h] # disk0[h]

\* C7: at the end the found count is the number of discovered paths and
\* fixed_count is the number of files whose rewrite completed; always
\* 0 <= fixed_count <= found; and a file whose text on disk differs from what
\* it was before the run is counted as fixed.
C7_Counts ==
    /\ found >= 0 => 0 <= fixed_count /\ fixed_count <= found
    /\ (pc = "done" /\ root_exists) =>
          /\ found = Len(disk0)
          /\ <<"found", found>> \in Lines
          /\ fixed_count =
                Cardinality({f \in Files : disk[f] # disk0[f] /\ disk[f] = Rewrite(disk0[f])})
          /\ \A f \in Files : disk[f] # disk0[f] => <<"fixed", f>> \in Lines

\* C8: with the root missing nothing is enumerated, read or written,
\* fixed_count stays zero, "not found" is reported and main returns.
C8_RootMissing ==
    ~root_exists =>
        /\ pc \in {"start", "done"}
        /\ pc = "start" => ENABLED Next
        /\ pc = "done" => out = << <<"not found">> >>
        /\ found = -1
        /\ idx = 0
        /\ fixed_count = 0
        /\ opened_w = {}
        /\ disk = disk0

C8_Witness == ~root_exists /\ pc = "done" /\ Len(out) = 1

(***************************************************************************)
(* Properties of the rewriting of one file (SpecRewrite).                  *)
(***************************************************************************)
IsPrefix(p, s) == Len(p) <= Len(s) /\ SubSeq(s, 1, Len(p)) = p

\* the for loop of the first run is over: content is the rewritten text
Rewritten == run = 1 /\ fpc \in {"cmp", "ret"}

\* the generated path ends in ".js" right before the closing quote
EndsInJs(i) == i.nsuf >= 1 /\ i.ext = <<>>
\* the generated statement is `from`, whitespace and a literal ending in ".js"
Matched(i) == i.fws # <<>> /\ EndsInJs(i)
Plain(i) == i.stem \in PlainStems
\* the path with n of its trailing ".js" removed
Stripped(i, n) == i.stem \o Repeat(DOTJS, i.nsuf - n)

\* s holds `from`, whitespace and a quoted string (quotes at a and b, none
\* between) that ends in ".js" right before its closing quote
HasFromJsLiteral(s) ==
    \E a, b \in 1..Len(s) :
        /\ IsQuote(s[a])
        /\ IsQuote(s[b])
        /\ a + 3 < b
        /\ \A j \in (a + 1)..(b - 1) : ~IsQuote(s[j])
        /\ SubSeq(s, b - 3, b - 1) = DOTJS
        /\ \E w \in 1..(a - 1) :
              /\ \A j \in (a - w)..(a - 1) : IsSpace(s[j])
              /\ HasAt(s, a - w - 4, FROM)

\* C2 as stated: a bare `from q p.js q` (no import statement) becomes
\* `from q p q` with the same quote character q.
C2_QuotePreserved ==
    (Rewritten /\ Plain(inp) /\ Matched(inp) /\ inp.kw # "import" /\ inp.q1 = inp.q2) =>
        \E w \in {<<" ">>, inp.fws} :
            IsPrefix(Lead(inp.kw, inp.lws) \o FROM \o w \o <<inp.q1>>
                        \o Stripped(inp, 1) \o <<inp.q1>>, content)

\* C2 amended: a bare `from q p.js q` becomes `from 'p'`: the literal is
\* single-quoted whatever q was.
C2_SingleQuoted ==
    (Rewritten /\ Plain(inp) /\ Matched(inp) /\ inp.kw # "import" /\ inp.q1 = inp.q2) =>
        \E w \in {<<" ">>, inp.fws} :
            IsPrefix(Lead(inp.kw, inp.lws) \o FROM \o w \o <<SQ>>
                        \o Stripped(inp, 1) \o <<SQ>>, content)

C2_Witness ==
    /\ Rewritten /\ Plain(inp) /\ Matched(inp)
    /\ inp.kw = "export" /\ inp.q1 = DQ /\ inp.q2 = DQ /\ inp.nsuf = 1
    /\ content # original_content

\* both runs are over
SecondRunDone == run = 2 /\ fpc = "ret"

\* C3 as stated: a second run leaves every file as the first run left it and
\* fixes nothing.
C3_Idempotent ==
    SecondRunDone => file = out1 /\ result = FALSE

\* no module path ends in ".js.js", or in `from`, whitespace and ".js"
NoRepeatedSuffix(i) == ~(EndsInJs(i) /\ (i.nsuf >= 2 \/ i.stem = NestedStem))

\* C3 amended: when no module path ends in ".js.js" or in `from`, whitespace
\* and ".js", a second run leaves the file as the first run left it and
\* fixes nothing.
C3_IdempotentOnce ==
    (SecondRunDone /\ NoRepeatedSuffix(inp)) => file = out1 /\ result = FALSE

C3_Witness ==
    /\ SecondRunDone /\ NoRepeatedSuffix(inp)
    /\ Matched(inp) /\ inp.trail = SecondStmt
    /\ out1 # Build(inp)
    /\ file = out1

\* C4: a matched statement's path loses exactly one trailing ".js", in the
\* bare `from` form and in the `import ... from` form alike.
C4_OneSuffixStripped ==
    (Rewritten /\ Plain(inp) /\ Matched(inp)) =>
        \E l \in {inp.lws, <<" ">>}, w \in {inp.fws, <<" ">>}, q \in Quotes :
            IsPrefix(Lead(inp.kw, l) \o FROM \o w \o <<q>>
                        \o Stripped(inp, 1) \o <<q>>, content)

\* C5: a text with no `from` literal ending in ".js" is left as it is and the
\* file is not written.
C5_NoMatchNoChange ==
    (Rewritten /\ ~HasFromJsLiteral(Build(inp))) =>
        /\ content = Build(inp)
        /\ file = Build(inp)
        /\ writes = 0
        /\ fpc = "ret" => result = FALSE

C5_Witness ==
    /\ run = 1 /\ fpc = "ret"
    /\ ~HasFromJsLiteral(Build(inp))
    /\ inp.fws # <<>> /\ inp.nsuf >= 1 /\ inp.ext = <<".", "m", "a", "p">>
    /\ inp.kw = "import"

\* the trail as the rewriter leaves it, with q around the second statement's path
TrailAs(t, q) ==
    IF t = SecondStmt THEN <<"\n">> \o FROM \o <<" ", q, "b", q>> ELSE t

\* C9 as stated: only the value of the literal changes; the text before
\* `from`, the whitespace between `from` and the literal and the text after
\* the literal are kept, and at most the quote character differs.
C9_OnlyLiteralChanges ==
    (Rewritten /\ Plain(inp) /\ Matched(inp)) =>
        \E q \in Quotes, n \in 1..inp.nsuf :
            content = Lead(inp.kw, inp.lws) \o FROM \o inp.fws \o <<q>>
                         \o Stripped(inp, n) \o <<q>> \o TrailAs(inp.trail, q)

\* the text before `from` after the rewrite: the second pattern, when it
\* matches, puts one space after `import` and one before `from`
LeadOut(i) ==
    IF i.kw = "import" /\ i.nsuf >= 2 THEN Lead(i.kw, <<" ">>) ELSE Lead(i.kw, i.lws)

\* C9 amended: the text outside a match and the import clause are kept; in a
\* match the whitespace between `from` and the literal becomes one space and
\* the quotes become single quotes, and where the second pattern matches the
\* whitespace around the import clause becomes one space on each side.
C9_FrameNormalised ==
    (Rewritten /\ Plain(inp) /\ Matched(inp)) =>
        \E n \in 1..inp.nsuf :
            content = LeadOut(inp) \o FROM \o <<" ", SQ>>
                         \o Stripped(inp, n) \o <<SQ>> \o TrailAs(inp.trail, SQ)

C9_Witness ==
    /\ Rewritten /\ Plain(inp) /\ Matched(inp)
    /\ inp.kw = "import" /\ inp.lws = <<"\t">> /\ inp.fws = <<"\t", "\t">>
    /\ inp.nsuf = 1 /\ inp.trail = SecondStmt
    /\ content # original_content

\* the second pattern against the first: what holds whatever the path is
Rule2Effect ==
    /\ content # after1 => HasFromJsLiteral(after1)
    /\ (Plain(inp) /\ Matched(inp) /\ inp.nsuf >= 2) =>
          IF inp.kw = "import"
          THEN /\ content # after1
               /\ content = Lead(inp.kw, <<" ">>) \o FROM \o <<" ", SQ>>
                               \o Stripped(inp, 2) \o <<SQ>> \o TrailAs(inp.trail, SQ)
          ELSE /\ content = after1
               /\ content = Lead(inp.kw, inp.lws) \o FROM \o <<" ", SQ>>
                               \o Stripped(inp, 1) \o <<SQ>> \o TrailAs(inp.trail, SQ)

\* C10 as stated: when no module path ends in ".js.js" the second pattern
\* changes nothing; it changes the content only when the output of the first
\* still holds a `from` literal ending in ".js", and then an import statement
\* loses a second ".js" while a bare `from` statement does not.
C10_Rule2NoopUnlessJsJs ==
    Rewritten =>
        /\ ~(EndsInJs(inp) /\ inp.nsuf >= 2) => content = after1
        /\ Rule2Effect

\* C10 amended: the second pattern changes nothing when no module path ends
\* in ".js.js" or in `from`, whitespace and ".js"; the rest as stated.
C10_Rule2NoopOnPlainPaths ==
    Rewritten =>
        /\ NoRepeatedSuffix(inp) => content = after1
        /\ Rule2Effect

C10_Witness ==
    /\ Rewritten /\ Plain(inp) /\ Matched(inp)
    /\ inp.kw = "import" /\ inp.nsuf = 2
    /\ content # after1
    /\ after1 # original_content

====
